---- MODULE Spec2Model ----
(***************************************************************************)
(* Model of homework.py: a bot that polls the homework-review API, parses  *)
(* the status of the first homework record and relays it to a chat.        *)
(*                                                                         *)
(* Strings are modelled as sequences of tokens (the empty string is <<>>), *)
(* so formatting is concatenation and "contains" is "has as a contiguous   *)
(* subsequence".  The Russian literals of the source are transliterated.   *)
(* None-able values are records with a tag, so that values of different    *)
(* Python types are never compared directly.                               *)
(***************************************************************************)
EXTENDS Integers, Sequences, FiniteSets, TLC

(* ------------------------------ bounds --------------------------------- *)

\* Number of iterations of the poll loop that are explored.
MaxCycles == 3

\* Value of int(time.time()) when main starts.
StartTime == 1

(* ------------------------- program constants --------------------------- *)

RETRY_PERIOD == 600

HTTPStatusOK == 200

\* HOMEWORK_VERDICTS: status code -> verdict text.
HOMEWORK_VERDICTS ==
    [s \in {"approved", "reviewing", "rejected"} |->
        CASE s = "approved"  -> <<"Rabota proverena:", "revyueru vsyo ponravilos.", "Ura!">>
          [] s = "reviewing" -> <<"Rabota vzyata na proverku", "revyuerom.">>
          [] s = "rejected"  -> <<"Rabota proverena:", "u revyuera est zamechaniya.">>]

(* ------------------------------ values --------------------------------- *)

\* A Python value that is None, or a str (a token sequence).
NoneVal == [st |-> "none", text |-> <<>>]
StrVal(t) == [st |-> "str", text |-> t]
\* A local name that has not been assigned yet.
Unbound == [st |-> "unbound", text |-> <<>>]

\* A value of a homework field: absent (dict.get gives None) or a string.
Absent == [has |-> FALSE, v |-> <<>>]
Field(t) == [has |-> TRUE, v |-> t]

\* Names a homework record may carry: none, the empty string, a real name.
NameValues == {Absent, Field(<<>>), Field(<<"hw1">>)}

\* Status codes a homework record may carry.
StatusValues ==
    {Absent, Field(<<"approved">>), Field(<<"reviewing">>),
     Field(<<"rejected">>), Field(<<"in_progress">>)}

\* Elements of the homeworks list: a record (dict), JSON null, or a string.
HwDict(n, s) == [kind |-> "dict", name |-> n, status |-> s]
HwNull == [kind |-> "null", name |-> Absent, status |-> Absent]
HwStr == [kind |-> "str", name |-> Absent, status |-> Absent]
Homeworks == {HwDict(n, s) : n \in NameValues, s \in StatusValues} \cup {HwNull, HwStr}

\* Older records that may follow the first one in the list.
OlderHomeworks ==
    {HwDict(Field(<<"hw0">>), Field(<<"approved">>)),
     HwDict(Field(<<"hw0">>), Field(<<"in_progress">>))}

HomeworkLists ==
    {<<>>} \cup {<<h>> : h \in Homeworks}
           \cup {<<h, g>> : h \in Homeworks, g \in OlderHomeworks}

\* Decoded JSON bodies.  keys is the set of keys of a dict body; hwKind and
\* hws describe the value under "homeworks"; date is the value under
\* "current_date" and "current_timestamp" when those keys are present.
NonDict(k) == [kind |-> k, keys |-> {}, hwKind |-> "none", hws |-> <<>>, date |-> 0]
DictNoHw(dk, d) ==
    [kind |-> "dict", keys |-> dk, hwKind |-> "none", hws |-> <<>>,
     date |-> IF dk = {} THEN 0 ELSE d]
DictHw(dk, k, l, d) ==
    [kind |-> "dict", keys |-> dk \cup {"homeworks"}, hwKind |-> k, hws |-> l,
     date |-> IF dk = {} THEN 0 ELSE d]

DateKeySets == {{}, {"current_date"}, {"current_timestamp"}}

Bodies(d) ==
    {NonDict(k) : k \in {"list", "str", "null"}}
    \cup {DictNoHw(dk, d) : dk \in DateKeySets}
    \cup {DictHw(dk, k, <<>>, d) : dk \in DateKeySets, k \in {"str", "null"}}
    \cup {DictHw(dk, "list", l, d) : dk \in DateKeySets, l \in HomeworkLists}

(* ---------------------------- exceptions ------------------------------- *)

\* The outcome of a call: exc = "none" and a return value, or an exception
\* of class exc raised with the argument text.
Return(v) == [exc |-> "none", text |-> <<>>, ret |-> v]
Raise(k, t) == [exc |-> k, text |-> t, ret |-> NoneVal]

\* ParseStatusError and ApiAnswerError (module exceptions) are taken to be
\* subclasses of Exception that are not requests exceptions.

\* str(error): KeyError shows the repr of its argument, the others the argument.
StrOfError(k, t) == IF k = "KeyError" THEN <<"'">> \o t \o <<"'">> ELSE t

(* --------------------------- check_response ---------------------------- *)

check_response_no_order(response) ==
    IF "homeworks" \notin response.keys
    THEN Raise("KeyError", <<"Dannyh homeworks net v otvete endpointa">>)
    ELSE IF response.kind # "dict"
    THEN Raise("TypeError", <<"Otvet ot endpointa prishel ne v formate slovarya">>)
    ELSE IF response.hwKind # "list"
    THEN Raise("TypeError", <<"Dannye homeworks polucheny ne v vide spiska">>)
    ELSE Return(NoneVal)

check_response(response) ==
    IF response.kind # "dict"
    THEN Raise("TypeError", <<"Otvet ot endpointa prishel ne v formate slovarya">>)
    ELSE IF "homeworks" \notin response.keys
    THEN Raise("KeyError", <<"Dannyh homeworks net v otvete endpointa">>)
    ELSE IF response.hwKind # "list"
    THEN Raise("TypeError", <<"Dannye homeworks polucheny ne v vide spiska">>)
    ELSE Return(NoneVal)

(* ----------------------------- parse_status ---------------------------- *)

StatusMessage(homework_name, verdict) ==
    <<"Izmenilsya status proverki raboty \"">> \o homework_name
        \o <<"\". ">> \o verdict

UnknownStatusText(status) ==
    <<"Neizvestnyj status domashnej raboty ">> \o status \o <<".">>

\* HOMEWORK_VERDICTS.get(status): the verdict, or None.
VerdictOf(status) ==
    IF status.has /\ Len(status.v) = 1 /\ status.v[1] \in DOMAIN HOMEWORK_VERDICTS
    THEN StrVal(HOMEWORK_VERDICTS[status.v[1]])
    ELSE NoneVal

\* Truth value of a None-or-str value.
Truthy(v) == v.st = "str" /\ v.text # <<>>

parse_status_status_first(homework) ==
    IF homework.kind = "null" THEN Return(NoneVal)
    ELSE IF homework.kind # "dict"
    THEN Raise("AttributeError", <<"object has no attribute 'get'">>)
    ELSE IF ~homework.status.has
    THEN Raise("ParseStatusError", <<"Status domashnih rabot ne izmenilsya.">>)
    ELSE IF ~homework.name.has
    THEN Raise("KeyError", <<"Otsutstvuet klyuch \"homework_name\"!">>)
    ELSE IF homework.name.v # <<>> /\ Truthy(VerdictOf(homework.status))
    THEN Return(StrVal(StatusMessage(homework.name.v, VerdictOf(homework.status).text)))
    ELSE Raise("ParseStatusError", UnknownStatusText(homework.status.v))

parse_status(homework) ==
    IF homework.kind = "null" THEN Return(NoneVal)
    ELSE IF homework.kind # "dict"
    THEN Raise("AttributeError", <<"object has no attribute 'get'">>)
    ELSE IF ~homework.name.has
    THEN Raise("KeyError", <<"Otsutstvuet klyuch \"homework_name\"!">>)
    ELSE IF ~homework.status.has
    THEN Raise("ParseStatusError", <<"Status domashnih rabot ne izmenilsya.">>)
    ELSE IF homework.name.v # <<>> /\ Truthy(VerdictOf(homework.status))
    THEN Return(StrVal(StatusMessage(homework.name.v, VerdictOf(homework.status).text)))
    ELSE Raise("ParseStatusError", UnknownStatusText(homework.status.v))

(* ---------------------------- get_api_answer --------------------------- *)

\* What the HTTP layer can answer to one GET: a network failure, a response
\* with a status other than 200, a 200 whose body is not JSON, or a 200
\* with a decoded body.
NetFailure == [net |-> "fail", status |-> 0, json |-> FALSE, body |-> NonDict("null")]
HttpStatus(c) == [net |-> "ok", status |-> c, json |-> FALSE, body |-> NonDict("null")]
HttpNotJson == [net |-> "ok", status |-> 200, json |-> FALSE, body |-> NonDict("null")]
HttpJson(b) == [net |-> "ok", status |-> 200, json |-> TRUE, body |-> b]

\* Lists of homeworks the polled API answers with: empty, a null element, an
\* approved, a rejected and an unreviewed homework, a record without a name,
\* one with an empty name, and a list of two records.
PolledHomeworkLists ==
    {<<>>,
     <<HwNull>>,
     <<HwDict(Field(<<"hw1">>), Field(<<"approved">>))>>,
     <<HwDict(Field(<<"hw1">>), Field(<<"rejected">>))>>,
     <<HwDict(Field(<<"hw1">>), Field(<<"in_progress">>))>>,
     <<HwDict(Field(<<"hw1">>), Absent)>>,
     <<HwDict(Absent, Field(<<"approved">>))>>,
     <<HwDict(Field(<<>>), Field(<<"approved">>))>>,
     <<HwDict(Field(<<"hw1">>), Field(<<"reviewing">>)),
       HwDict(Field(<<"hw0">>), Field(<<"approved">>))>>}

\* Bodies the polled API answers with at server time d.
PolledBodies(d) ==
    {NonDict("list"), DictNoHw({}, d), DictNoHw({"current_date"}, d),
     DictHw({"current_date"}, "null", <<>>, d),
     DictHw({}, "list", <<>>, d),
     DictHw({"current_timestamp"}, "list", <<>>, d),
     DictHw({"current_timestamp"}, "list",
            <<HwDict(Field(<<"hw1">>), Field(<<"approved">>))>>, d)}
    \cup {DictHw({"current_date"}, "list", l, d) : l \in PolledHomeworkLists}

HttpAnswers(d) ==
    {NetFailure, HttpStatus(404), HttpStatus(500), HttpNotJson}
    \cup {HttpJson(b) : b \in PolledBodies(d)}

ApiReturn(b) == [exc |-> "none", text |-> <<>>, ret |-> b]
ApiRaise(k, t) == [exc |-> k, text |-> t, ret |-> NonDict("null")]

\* jsonErrIsRequestException: whether the JSON decoding error raised by
\* response.json() of the installed requests library is a RequestException
\* (it is from requests 2.27 on, and a plain ValueError before).
get_api_answer(timestamp, http, jsonErrIsRequestException) ==
    IF http.net = "fail"
    THEN ApiRaise("ApiAnswerError", <<"Oshibka pri zaprose k API: ", "connection failed">>)
    ELSE IF http.status # HTTPStatusOK
    THEN ApiRaise("ApiAnswerError",
                  <<"Oshibka pri zaprose k API. Kod otveta: ", ToString(http.status)>>)
    ELSE IF ~http.json
    THEN IF jsonErrIsRequestException
         THEN ApiRaise("ApiAnswerError", <<"Oshibka pri zaprose k API: ", "invalid JSON">>)
         ELSE ApiRaise("ValueError", <<"invalid JSON">>)
    ELSE ApiReturn(http.body)

(* ------------------------------ send_message --------------------------- *)

\* What bot.send_message can do: deliver, raise a telegram.error.TelegramError,
\* or raise an exception of another class.
TransportOutcomes == {"ok", "TelegramError", "OtherError"}

\* Outcome of send_message(bot, message) when the transport call ends as tr.
send_message(message, tr) ==
    IF tr = "ok" THEN Return(NoneVal)
    ELSE IF tr = "TelegramError" THEN Return(NoneVal)
    ELSE Raise(tr, <<"transport failure">>)

\* The log record send_message writes.
send_message_log(tr) ==
    IF tr = "ok" THEN "DEBUG" ELSE IF tr = "TelegramError" THEN "ERROR" ELSE "none"

(* ------------------------------ check_tokens --------------------------- *)

\* Values a configuration name may have: None, the empty string, a value.
TokenValues == {NoneVal, StrVal(<<>>), StrVal(<<"value">>)}

\* Number of critical records check_tokens logs: one per value that is None.
check_tokens_criticals(toks) == Cardinality({i \in DOMAIN toks : toks[i].st = "none"})

check_tokens_any(toks) == \E i \in DOMAIN toks : Truthy(toks[i])

\* all(TOKENS_CHAT_FOR_TELEGRAM)
check_tokens(toks) == \A i \in DOMAIN toks : Truthy(toks[i])

(* --------------------------------- state ------------------------------- *)

VARIABLES
    tokens,             \* <<PRACTICUM_TOKEN, TELEGRAM_TOKEN, TELEGRAM_CHAT_ID>>
    pc,                 \* position of main
    current_timestamp,  \* local of main: [isNone, v]
    message,            \* local of main: Unbound, None or a str
    message_error,      \* local of main: '' (id 0) or the last stored exception
    response,           \* local of main: the last decoded body
    error,              \* the exception raised in this iteration
    after,              \* what follows the finally clause: "loop", "break", "raise"
    clock,              \* wall clock, in seconds
    cycle,              \* number of the current iteration
    cur,                \* what happened in the current iteration
    prev,               \* what happened in the iteration before
    lastApi,            \* the call of get_api_answer of this iteration
    lastSend,           \* the last call of send_message of this iteration
    criticalLogs,       \* number of critical records logged by check_tokens
    stopPrinted,        \* the stop message of line 127 was printed
    unit                \* a direct call of check_response or parse_status

vars == <<tokens, pc, current_timestamp, message, message_error, response, error,
          after, clock, cycle, cur, prev, lastApi, lastSend, criticalLogs,
          stopPrinted, unit>>

IntVal(n) == [isNone |-> FALSE, v |-> n]
NoneInt == [isNone |-> TRUE, v |-> 0]

\* An exception object: objects are told apart by id (identity).
NoError == [kind |-> "none", text |-> <<>>, id |-> 0]
EmptyStr == [kind |-> "str", text |-> <<>>, id |-> 0]
ExcObject(out, n) == [kind |-> out.exc, text |-> out.text, id |-> n]

\* Summary of one iteration of the loop.
NoCycle ==
    [requests |-> 0,          \* GET requests issued
     from_date |-> NoneInt,   \* from_date of the request
     parsed |-> Unbound,      \* what parse_status returned, if it returned
     sends |-> <<>>,          \* calls of send_message: <<origin, text>>
     err |-> NoError,         \* the exception caught by "except Exception"
     errLogged |-> FALSE,     \* logging.error(error) ran
     sleeps |-> 0,            \* calls of time.sleep
     validated |-> FALSE,     \* check_response returned
     serverDate |-> NoneInt,  \* current_date of the body, if it is a dict with one
     parsedHw |-> <<>>]       \* the records handed to parse_status

NoApiCall == [called |-> FALSE, http |-> NetFailure, out |-> ApiRaise("none", <<>>)]
NoSendCall == [called |-> FALSE, origin |-> "none", arg |-> Unbound, tr |-> "none",
               transportCalls |-> 0, log |-> "none", out |-> Return(NoneVal)]
NoUnitCall == [fn |-> "none", body |-> NonDict("null"), hw |-> HwNull, out |-> Return(NoneVal)]

Init ==
    /\ tokens \in [1..3 -> TokenValues]
    /\ pc = "start"
    /\ current_timestamp = NoneInt
    /\ message = Unbound
    /\ message_error = EmptyStr
    /\ response = NonDict("null")
    /\ error = NoError
    /\ after = "loop"
    /\ clock = StartTime
    /\ cycle = 0
    /\ cur = NoCycle
    /\ prev = NoCycle
    /\ lastApi = NoApiCall
    /\ lastSend = NoSendCall
    /\ criticalLogs = 0
    /\ stopPrinted = FALSE
    /\ unit = NoUnitCall

(* --------------------------------- main -------------------------------- *)

\* Lines 105-110: check_tokens, sys.exit(0) or the set-up of the loop.
Startup ==
    /\ pc = "start"
    /\ criticalLogs' = check_tokens_criticals(tokens)
    /\ IF ~check_tokens(tokens)
       THEN /\ pc' = "exited"
            /\ UNCHANGED <<current_timestamp, message_error, cycle>>
       ELSE /\ pc' = "call_api"
            /\ current_timestamp' = IntVal(clock)
            /\ message_error' = EmptyStr
            /\ cycle' = 1
    /\ UNCHANGED <<tokens, message, response, error, after, clock, cur, prev,
                   lastApi, lastSend, stopPrinted, unit>>

\* Record of a call send_message(bot, arg) whose transport call ends as tr.
SendCall(origin, arg, tr) ==
    [called |-> TRUE, origin |-> origin, arg |-> arg, tr |-> tr,
     transportCalls |-> 1, log |-> send_message_log(tr), out |-> send_message(arg, tr)]

\* Line 113: response = get_api_answer(current_timestamp).
GetApiAnswer ==
    /\ pc = "call_api"
    /\ cycle <= MaxCycles
    /\ \E http \in HttpAnswers(clock), jsonErrIsRequestException \in BOOLEAN :
         LET out == get_api_answer(current_timestamp, http, jsonErrIsRequestException) IN
         /\ lastApi' = [called |-> TRUE, http |-> http, out |-> out]
         /\ cur' = [cur EXCEPT !.requests = @ + 1, !.from_date = current_timestamp]
         /\ IF out.exc # "none"
            THEN /\ error' = ExcObject(out, cycle)
                 /\ pc' = "except"
                 /\ UNCHANGED response
            ELSE /\ response' = out.ret
                 /\ pc' = "process"
                 /\ UNCHANGED error
    /\ UNCHANGED <<tokens, current_timestamp, message, message_error, after, clock,
                   cycle, prev, lastSend, criticalLogs, stopPrinted, unit>>

\* Line 114: response.get('current_timestamp').
GetTimestamp(resp) ==
    IF resp.kind # "dict"
    THEN Raise("AttributeError", <<"object has no attribute 'get'">>)
    ELSE Return(NoneVal)

\* A loop that reads the cursor from the key current_date.
TimestampOf_current_date(resp) ==
    IF "current_date" \in resp.keys THEN IntVal(resp.date) ELSE NoneInt

\* Line 114: the value assigned to current_timestamp.
TimestampOf(resp) ==
    IF "current_timestamp" \in resp.keys THEN IntVal(resp.date) ELSE NoneInt

\* A loop that parses the last record of the list instead of the first.
ParseFirst_last(resp) ==
    IF resp.keys # {} /\ resp.hws # <<>>
    THEN [called |-> TRUE, hw |-> resp.hws[Len(resp.hws)],
          out |-> parse_status(resp.hws[Len(resp.hws)])]
    ELSE [called |-> FALSE, hw |-> HwNull, out |-> Return(NoneVal)]

\* Lines 118-122: the outcome of parsing the first record, or "skip" when
\* there is nothing to parse.
ParseFirst(resp) ==
    IF resp.keys # {} /\ resp.hws # <<>>
    THEN [called |-> TRUE, hw |-> resp.hws[1], out |-> parse_status(resp.hws[1])]
    ELSE [called |-> FALSE, hw |-> HwNull, out |-> Return(NoneVal)]

\* The value a dict body carries under "current_date", if any.
ServerDateOf(resp) ==
    IF resp.kind = "dict" /\ "current_date" \in resp.keys
    THEN IntVal(resp.date) ELSE NoneInt

\* Lines 114-122: advance the cursor, validate the body, parse the first record.
Process ==
    /\ pc = "process"
    /\ LET got == GetTimestamp(response)
           chk == check_response(response)
           prs == ParseFirst(response)
       IN
       IF got.exc # "none"
       THEN /\ error' = ExcObject(got, cycle)
            /\ pc' = "except"
            /\ UNCHANGED <<current_timestamp, message, cur>>
       ELSE /\ current_timestamp' = TimestampOf(response)
            /\ IF chk.exc # "none"
               THEN /\ error' = ExcObject(chk, cycle)
                    /\ pc' = "except"
                    /\ cur' = [cur EXCEPT !.serverDate = ServerDateOf(response)]
                    /\ UNCHANGED message
               ELSE IF ~prs.called
               THEN /\ pc' = "finally"
                    /\ cur' = [cur EXCEPT !.serverDate = ServerDateOf(response),
                                          !.validated = TRUE]
                    /\ UNCHANGED <<error, message>>
               ELSE IF prs.out.exc # "none"
               THEN /\ error' = ExcObject(prs.out, cycle)
                    /\ pc' = "except"
                    /\ cur' = [cur EXCEPT !.serverDate = ServerDateOf(response),
                                          !.validated = TRUE,
                                          !.parsedHw = <<prs.hw>>]
                    /\ UNCHANGED message
               ELSE /\ message' = prs.out.ret
                    /\ cur' = [cur EXCEPT !.serverDate = ServerDateOf(response),
                                          !.validated = TRUE,
                                          !.parsedHw = <<prs.hw>>,
                                          !.parsed = prs.out.ret]
                    /\ pc' = IF Truthy(prs.out.ret) THEN "send" ELSE "finally"
                    /\ UNCHANGED error
    /\ UNCHANGED <<tokens, message_error, response, after, clock, cycle, prev,
                   lastApi, lastSend, criticalLogs, stopPrinted, unit>>

\* Line 123: send_message(bot, message).
SendStatus ==
    /\ pc = "send"
    /\ \E tr \in TransportOutcomes :
         LET call == SendCall("status", message, tr) IN
         /\ lastSend' = call
         /\ cur' = [cur EXCEPT !.sends = Append(@, <<"status", message>>)]
         /\ IF call.out.exc # "none"
            THEN /\ error' = ExcObject(call.out, cycle)
                 /\ pc' = "except"
            ELSE /\ pc' = "finally"
                 /\ UNCHANGED error
    /\ UNCHANGED <<tokens, current_timestamp, message, message_error, response,
                   after, clock, cycle, prev, lastApi, criticalLogs, stopPrinted, unit>>

\* Line 131: error != message_error.  Exceptions define no __eq__, so two
\* objects are equal only if they are the same object.
ErrorDiffers(e, last) == e.id # last.id

\* Lines 129-134: the handler of "except Exception".
Except ==
    /\ pc = "except"
    /\ pc' = "finally"
    /\ IF ErrorDiffers(error, message_error)
       THEN IF message = Unbound
            THEN \* evaluating the name message raises in the handler
                 /\ error' = [kind |-> "UnboundLocalError",
                              text |-> <<"local variable 'message' referenced before assignment">>,
                              id |-> error.id]
                 /\ after' = "raise"
                 /\ cur' = [cur EXCEPT !.err = error, !.errLogged = TRUE]
                 /\ UNCHANGED <<message_error, lastSend>>
            ELSE \E tr \in TransportOutcomes :
                   LET call == SendCall("failure", message, tr) IN
                   /\ lastSend' = call
                   /\ cur' = [cur EXCEPT !.err = error, !.errLogged = TRUE,
                                         !.sends = Append(@, <<"failure", message>>)]
                   /\ IF call.out.exc # "none"
                      THEN /\ error' = ExcObject(call.out, error.id)
                           /\ after' = "raise"
                           /\ UNCHANGED message_error
                      ELSE /\ message_error' = error
                           /\ UNCHANGED <<error, after>>
       ELSE /\ cur' = [cur EXCEPT !.err = error, !.errLogged = TRUE]
            /\ UNCHANGED <<error, after, message_error, lastSend>>
    /\ UNCHANGED <<tokens, current_timestamp, message, response, clock, cycle, prev,
                   lastApi, criticalLogs, stopPrinted, unit>>

\* A loop that sleeps at the end of the try block only: no sleep after an
\* iteration that ended in the handler.
Sleep_skipped_after_error ==
    /\ pc = "finally"
    /\ clock' = IF cur.err = NoError THEN clock + RETRY_PERIOD ELSE clock
    /\ IF after = "loop"
       THEN /\ pc' = "call_api"
            /\ cycle' = cycle + 1
            /\ prev' = [cur EXCEPT !.sleeps = IF cur.err = NoError THEN @ + 1 ELSE @]
            /\ cur' = NoCycle
            /\ lastApi' = NoApiCall
            /\ lastSend' = NoSendCall
            /\ error' = NoError
       ELSE /\ pc' = IF after = "break" THEN "stopped" ELSE "crashed"
            /\ cur' = [cur EXCEPT !.sleeps = IF cur.err = NoError THEN @ + 1 ELSE @]
            /\ UNCHANGED <<cycle, prev, lastApi, lastSend, error>>
    /\ UNCHANGED <<tokens, current_timestamp, message, message_error, response,
                   after, criticalLogs, stopPrinted, unit>>

\* Line 136: time.sleep(RETRY_PERIOD) in the finally clause, then the next
\* iteration, the break of line 128, or the propagation of an exception.
Sleep ==
    /\ pc = "finally"
    /\ clock' = clock + RETRY_PERIOD
    /\ IF after = "loop"
       THEN /\ pc' = "call_api"
            /\ cycle' = cycle + 1
            /\ prev' = [cur EXCEPT !.sleeps = @ + 1]
            /\ cur' = NoCycle
            /\ lastApi' = NoApiCall
            /\ lastSend' = NoSendCall
            /\ error' = NoError
       ELSE /\ pc' = IF after = "break" THEN "stopped" ELSE "crashed"
            /\ cur' = [cur EXCEPT !.sleeps = @ + 1]
            /\ UNCHANGED <<cycle, prev, lastApi, lastSend, error>>
    /\ UNCHANGED <<tokens, current_timestamp, message, message_error, response,
                   after, criticalLogs, stopPrinted, unit>>

KeyboardInterrupt == [kind |-> "KeyboardInterrupt", text |-> <<>>, id |-> 0]

\* Lines 126-128: an interrupt delivered inside the try block is caught.
InterruptInTry ==
    /\ pc \in {"call_api", "process", "send"}
    /\ cycle <= MaxCycles
    /\ stopPrinted' = TRUE
    /\ after' = "break"
    /\ pc' = "finally"
    /\ UNCHANGED <<tokens, current_timestamp, message, message_error, response, error,
                   clock, cycle, cur, prev, lastApi, lastSend, criticalLogs, unit>>

\* An interrupt delivered inside the handler of line 129 propagates.
InterruptInHandler ==
    /\ pc = "except"
    /\ error' = KeyboardInterrupt
    /\ after' = "raise"
    /\ pc' = "finally"
    /\ UNCHANGED <<tokens, current_timestamp, message, message_error, response,
                   clock, cycle, cur, prev, lastApi, lastSend, criticalLogs,
                   stopPrinted, unit>>

\* An interrupt delivered during the sleep of line 136 ends it and propagates.
InterruptInSleep ==
    /\ pc = "finally"
    /\ error' = KeyboardInterrupt
    /\ pc' = "crashed"
    /\ UNCHANGED <<tokens, current_timestamp, message, message_error, response,
                   after, clock, cycle, cur, prev, lastApi, lastSend, criticalLogs,
                   stopPrinted, unit>>

Next ==
    \/ Startup
    \/ GetApiAnswer
    \/ Process
    \/ SendStatus
    \/ Except
    \/ Sleep
    \/ InterruptInTry
    \/ InterruptInHandler
    \/ InterruptInSleep

Spec == Init /\ [][Next]_vars

(* ------------------- direct calls of the pure functions ---------------- *)

\* The inputs of a direct call are drawn in the initial state.
InitUnit ==
    /\ tokens = [i \in 1..3 |-> StrVal(<<"value">>)]
    /\ pc = "unit"
    /\ current_timestamp = NoneInt
    /\ message = Unbound
    /\ message_error = EmptyStr
    /\ response = NonDict("null")
    /\ error = NoError
    /\ after = "loop"
    /\ clock = StartTime
    /\ cycle = 0
    /\ cur = NoCycle
    /\ prev = NoCycle
    /\ lastApi = NoApiCall
    /\ lastSend = NoSendCall
    /\ criticalLogs = 0
    /\ stopPrinted = FALSE
    /\ \E b \in Bodies(StartTime), h \in Homeworks \cup OlderHomeworks :
         unit = [fn |-> "none", body |-> b, hw |-> h, out |-> Return(NoneVal)]

UnitCheckResponse ==
    /\ pc = "unit"
    /\ unit.fn = "none"
    /\ unit' = [unit EXCEPT !.fn = "check_response", !.out = check_response(unit.body)]
    /\ UNCHANGED <<tokens, pc, current_timestamp, message, message_error, response,
                   error, after, clock, cycle, cur, prev, lastApi, lastSend,
                   criticalLogs, stopPrinted>>

UnitParseStatus ==
    /\ pc = "unit"
    /\ unit.fn = "none"
    /\ unit' = [unit EXCEPT !.fn = "parse_status", !.out = parse_status(unit.hw)]
    /\ UNCHANGED <<tokens, pc, current_timestamp, message, message_error, response,
                   error, after, clock, cycle, cur, prev, lastApi, lastSend,
                   criticalLogs, stopPrinted>>

NextUnit ==
    \/ UnitCheckResponse
    \/ UnitParseStatus

SpecUnit == InitUnit /\ [][NextUnit]_vars

(* -------------------------------- properties --------------------------- *)

\* s has sub as a contiguous subsequence.
Contains(s, sub) ==
    \E i \in 0..(Len(s) - Len(sub)) : SubSeq(s, i + 1, i + Len(sub)) = sub

\* The calls of send_message of an iteration that have the given origin.
SendsOf(c, origin) == {i \in DOMAIN c.sends : c.sends[i][1] = origin}

\* C1: if two consecutive iterations that end without an error parse the same
\* notification message, send_message is invoked for it in at most one of them.
C1_NoDuplicateStatus ==
    (/\ prev.parsed.st = "str"
     /\ cur.parsed = prev.parsed
     /\ prev.err = NoError
     /\ cur.err = NoError)
    => ~(SendsOf(prev, "status") # {} /\ SendsOf(cur, "status") # {})

\* C2: no failure of the API client, the validator, the parser or the notifier
\* ends main: main ends with an exception only if that is an interrupt, and a
\* handled failure is followed by the next iteration.
C2_NoFailureLeavesMain ==
    /\ pc = "crashed" => error.kind = "KeyboardInterrupt"
    /\ after = "raise" => error.kind = "KeyboardInterrupt"

\* C3: of two consecutive failing iterations whose errors have the same text,
\* at most one invokes the notifier for the failure.
C3_NoDuplicateFailure ==
    (/\ prev.err # NoError
     /\ cur.err # NoError
     /\ StrOfError(prev.err.kind, prev.err.text) = StrOfError(cur.err.kind, cur.err.text))
    => ~(SendsOf(prev, "failure") # {} /\ SendsOf(cur, "failure") # {})

\* A configuration value is missing: it is None or empty.
Missing(i) == tokens[i] \in {NoneVal, StrVal(<<>>)}

\* C4: once main has started, if a required value is missing main has exited
\* without any request, message or sleep; if none is missing main is in the loop.
C4_MissingConfigIsFatal ==
    pc \notin {"start", "unit"} =>
        IF \E i \in 1..3 : Missing(i)
        THEN /\ pc = "exited"
             /\ cycle = 0
             /\ cur.requests = 0 /\ prev.requests = 0 /\ ~lastApi.called
             /\ cur.sends = <<>> /\ prev.sends = <<>> /\ ~lastSend.called
             /\ cur.sleeps = 0 /\ prev.sleeps = 0 /\ clock = StartTime
        ELSE /\ pc # "exited"
             /\ cycle >= 1

\* Witness of C4: main has exited because exactly one value is absent.
C4_Witness ==
    /\ pc = "exited"
    /\ Cardinality({i \in 1..3 : Missing(i)}) = 1
    /\ \E i \in 1..3 : tokens[i] = NoneVal

\* C5: send_message returns normally whatever the transport call does, after
\* exactly one transport call.
C5_SendMessageNeverRaises ==
    lastSend.called => (lastSend.out.exc = "none" /\ lastSend.transportCalls = 1)

\* C6: check_response fails with TypeError for a body that is not a mapping,
\* else with KeyError if homeworks is absent, else with TypeError if homeworks
\* is not a list, else passes.
C6_CheckResponseOutcome ==
    unit.fn = "check_response" =>
        unit.out.exc =
            (IF unit.body.kind # "dict" THEN "TypeError"
             ELSE IF "homeworks" \notin unit.body.keys THEN "KeyError"
             ELSE IF unit.body.hwKind # "list" THEN "TypeError"
             ELSE "none")

\* Witness of C6: a body that is no mapping (and so has no homeworks either)
\* was rejected with TypeError.
C6_Witness ==
    /\ unit.fn = "check_response"
    /\ unit.body.kind = "list"
    /\ unit.out.exc = "TypeError"

\* The homework is a record with a name and a status of the verdict table.
HasNameAndKnownStatus(h) ==
    /\ h.kind = "dict"
    /\ h.name.has
    /\ h.status.has
    /\ h.status.v \in {<<"approved">>, <<"reviewing">>, <<"rejected">>}

\* C7: for a record with a name (even an empty one) and a status of the verdict
\* table, parse_status returns a string that contains the name and the verdict.
C7_ParseStatusSuccess ==
    (unit.fn = "parse_status" /\ HasNameAndKnownStatus(unit.hw)) =>
        /\ unit.out.exc = "none"
        /\ unit.out.ret.st = "str"
        /\ Contains(unit.out.ret.text, unit.hw.name.v)
        /\ Contains(unit.out.ret.text, HOMEWORK_VERDICTS[unit.hw.status.v[1]])

\* C8: parse_status fails with KeyError for a record without a name, with
\* ParseStatusError for one with a name and no status, and with the
\* ParseStatusError for an unknown status (naming it) for one with a name and
\* a status outside the verdict table; it returns nothing in these cases.
C8_ParseStatusFailures ==
    (unit.fn = "parse_status" /\ unit.hw.kind = "dict") =>
        /\ ~unit.hw.name.has => unit.out.exc = "KeyError"
        /\ (unit.hw.name.has /\ ~unit.hw.status.has) =>
              /\ unit.out.exc = "ParseStatusError"
              /\ unit.out.text = <<"Status domashnih rabot ne izmenilsya.">>
        /\ (unit.hw.name.has /\ unit.hw.status.has
                /\ ~HasNameAndKnownStatus(unit.hw)) =>
              /\ unit.out.exc = "ParseStatusError"
              /\ unit.out.text[1] = "Neizvestnyj status domashnej raboty "
              /\ Contains(unit.out.text, unit.hw.status.v)
        /\ ~HasNameAndKnownStatus(unit.hw) => unit.out.ret.st # "str"

\* Witness of C8: a record with neither a name nor a status failed with KeyError.
C8_Witness ==
    /\ unit.fn = "parse_status"
    /\ unit.hw.kind = "dict"
    /\ ~unit.hw.name.has
    /\ ~unit.hw.status.has
    /\ unit.out.exc = "KeyError"

\* C9: get_api_answer fails with ApiAnswerError on a network failure or a
\* status other than 200, returns the decoded body on a 200, lets no other
\* exception out and issues one request.
C9_ApiTwoOutcomes ==
    lastApi.called =>
        /\ lastApi.out.exc \in {"none", "ApiAnswerError"}
        /\ (lastApi.http.net = "fail" \/ lastApi.http.status # HTTPStatusOK)
              => lastApi.out.exc = "ApiAnswerError"
        /\ (lastApi.http.net = "ok" /\ lastApi.http.status = HTTPStatusOK
                /\ lastApi.http.json)
              => (lastApi.out.exc = "none" /\ lastApi.out.ret = lastApi.http.body)
        /\ cur.requests = 1

\* C10: the text handed to send_message by the error handler is the
\* stringified error of the iteration.
C10_FailureTextIsError ==
    (lastSend.called /\ lastSend.origin = "failure") =>
        lastSend.arg = StrVal(StrOfError(cur.err.kind, cur.err.text))

\* C11: after an iteration whose body passed validation and carried the
\* server's current_date d, the next request is sent with from_date = d.
C11_CursorAdvance ==
    (cur.requests = 1 /\ prev.validated /\ ~prev.serverDate.isNone)
    => cur.from_date = prev.serverDate

\* C12: the cursor passed to get_api_answer is an integer, and it is never
\* smaller than the cursor of the request before.
C12_CursorIntegerMonotone ==
    cur.requests = 1 =>
        /\ ~cur.from_date.isNone
        /\ (prev.requests = 1 /\ ~prev.from_date.isNone)
              => prev.from_date.v <= cur.from_date.v

\* main is inside the loop.
InLoop == pc \in {"call_api", "process", "send", "except", "finally"}

\* C13: every finished iteration, whatever its outcome, slept once for the
\* retry period before the next request: the clock stands one retry period
\* per finished iteration after the start, no iteration issues two requests,
\* and an iteration that leaves the loop through the finally clause slept too.
C13_SleepEveryIteration ==
    /\ cur.requests <= 1 /\ prev.requests <= 1
    /\ (InLoop /\ cycle >= 1) =>
          /\ clock = StartTime + (cycle - 1) * RETRY_PERIOD
          /\ cur.sleeps = 0
          /\ cycle >= 2 => (prev.requests = 1 /\ prev.sleeps = 1)
    /\ (pc = "stopped" \/ (pc = "crashed" /\ error.kind # "KeyboardInterrupt")) =>
          /\ cur.sleeps = 1
          /\ clock = StartTime + cycle * RETRY_PERIOD

\* Witness of C13: a request issued after an iteration that ended in the
\* error handler and slept.
C13_Witness ==
    /\ cur.requests = 1
    /\ prev.err # NoError
    /\ prev.sends # <<>>
    /\ prev.sleeps = 1
    /\ clock = StartTime + (cycle - 1) * RETRY_PERIOD

\* C14: when an interrupt ends the process the stop message was printed
\* first, and once the interrupt is caught main only sleeps and exits.
C14_GracefulInterrupt ==
    /\ (pc = "crashed" /\ error.kind = "KeyboardInterrupt") => stopPrinted
    /\ stopPrinted => pc \in {"finally", "stopped", "crashed"}

\* C15: when main has exited at startup, check_tokens logged one critical
\* record for each missing value; it fails exactly if it logged one.
C15_CriticalLogOnExit ==
    pc \notin {"start", "unit"} =>
        /\ pc = "exited" => criticalLogs = Cardinality({i \in 1..3 : Missing(i)})
        /\ pc = "exited" <=> criticalLogs >= 1

\* The API answered this iteration with a valid body.
ValidBody ==
    /\ lastApi.called
    /\ lastApi.out.exc = "none"
    /\ lastApi.out.ret.kind = "dict"
    /\ "homeworks" \in lastApi.out.ret.keys
    /\ lastApi.out.ret.hwKind = "list"

\* The API answered this iteration with a valid body whose list is empty.
EmptyListIteration == ValidBody /\ lastApi.out.ret.hws = <<>>

\* C16: in an iteration with a valid body and an empty list the parser is not
\* called, nothing is sent, no error is reported and message_error keeps its
\* value; with a non-empty list the one record parsed is the first, and a
\* status message sent names that record and its verdict.
C16_EmptyListAndFirstRecord ==
    [][/\ EmptyListIteration' =>
             /\ cur'.parsedHw = <<>>
             /\ cur'.parsed = Unbound
             /\ cur'.sends = <<>>
             /\ cur'.err = NoError /\ ~cur'.errLogged
             /\ pc' # "except"
             /\ message_error' = message_error
       /\ (ValidBody' /\ lastApi'.out.ret.hws # <<>>) =>
             /\ Len(cur'.parsedHw) <= 1
             /\ cur'.parsedHw # <<>> => cur'.parsedHw[1] = lastApi'.out.ret.hws[1]
             /\ \A i \in SendsOf(cur', "status") :
                   /\ Contains(cur'.sends[i][2].text, lastApi'.out.ret.hws[1].name.v)
                   /\ Contains(cur'.sends[i][2].text,
                               VerdictOf(lastApi'.out.ret.hws[1].status).text)
      ]_vars

\* Witness of C16: an iteration with a valid body and an empty list was
\* processed and has reached the sleep.
C16_Witness ==
    /\ EmptyListIteration
    /\ cur.validated
    /\ pc = "finally"
    /\ after = "loop"
    /\ cur.sends = <<>>

\* C17: send_message is invoked at most once in an iteration.
C17_OneSendPerIteration ==
    Len(cur.sends) <= 1 /\ Len(prev.sends) <= 1

====
